---- MODULE Spec2Model ----
(***************************************************************************)
(* Model of the inverter-power simulation of the load-data-analysis       *)
(* system (src/main.py): the gain-expression evaluator                    *)
(* parse_k_expression and the recurrence calculate_inverter_power.        *)
(*                                                                         *)
(* Numbers.  Python floats are modelled as exact decimal-scaled rationals *)
(* [n, d, e] standing for (n / d) * 10^e, kept in a canonical form so     *)
(* that equal values are equal records.  Binary rounding of IEEE doubles  *)
(* is not modelled.                                                       *)
(*                                                                         *)
(* Text.  A Python str is a sequence of one-character strings; the glyph  *)
(* U+03BB is the element GLYPH and the value None is the element NONE.    *)
(***************************************************************************)
EXTENDS Integers, Sequences, FiniteSets, TLC

(***************************************************************************)
(* Exact arithmetic                                                        *)
(***************************************************************************)
Abs(x) == IF x < 0 THEN -x ELSE x

RECURSIVE Gcd(_, _)
Gcd(a, b) == IF b = 0 THEN a ELSE Gcd(b, a % b)

RECURSIVE Pow10(_)
Pow10(k) == IF k = 0 THEN 1 ELSE 10 * Pow10(k - 1)

\* move every factor 2 of the denominator into the decimal exponent
RECURSIVE Strip2(_, _, _)
Strip2(n, d, e) == IF d % 2 = 0 THEN Strip2(n * 5, d \div 2, e - 1)
                   ELSE [n |-> n, d |-> d, e |-> e]

\* move every factor 5 of the denominator into the decimal exponent
RECURSIVE Strip5(_, _, _)
Strip5(n, d, e) == IF d % 5 = 0 THEN Strip5(n * 2, d \div 5, e - 1)
                   ELSE [n |-> n, d |-> d, e |-> e]

\* move every factor 10 of the numerator into the decimal exponent
RECURSIVE Strip10(_, _, _)
Strip10(n, d, e) == IF n % 10 = 0 THEN Strip10(n \div 10, d, e + 1)
                    ELSE [n |-> n, d |-> d, e |-> e]

\* n / d in lowest terms with a positive denominator, g their gcd
Lowest(n, d, e, g) == [n |-> ((IF d < 0 THEN -1 ELSE 1) * n) \div g, d |-> Abs(d) \div g, e |-> e]
Strip2R(r) == Strip2(r.n, r.d, r.e)
Strip5R(r) == Strip5(r.n, r.d, r.e)
Strip10R(r) == Strip10(r.n, r.d, r.e)

\* the canonical number (n / d) * 10^e, for d # 0
Q(n, d, e) ==
    IF n = 0 THEN [n |-> 0, d |-> 1, e |-> 0]
    ELSE Strip10R(Strip5R(Strip2R(Lowest(n, d, e, Gcd(Abs(n), Abs(d))))))

Zero == Q(0, 1, 0)
Int2Q(k) == Q(k, 1, 0)
Tenths(k) == Q(k, 10, 0)

QNeg(a) == [n |-> -a.n, d |-> a.d, e |-> a.e]
QMulBy(a, b, g1, g2) ==
    Q((a.n \div g1) * (b.n \div g2), (a.d \div g2) * (b.d \div g1), a.e + b.e)
QMul(a, b) == QMulBy(a, b, Gcd(Abs(a.n), b.d), Gcd(Abs(b.n), a.d))
QInv(a) == Q(a.d, a.n, -a.e)
QDiv(a, b) == QMul(a, QInv(b))
QAdd(a, b) ==
    IF a.n = 0 THEN b
    ELSE IF b.n = 0 THEN a
    ELSE LET m == IF a.e < b.e THEN a.e ELSE b.e
         IN  Q(a.n * Pow10(a.e - m) * b.d + b.n * Pow10(b.e - m) * a.d, a.d * b.d, m)
QSub(a, b) == QAdd(a, QNeg(b))
QSign(a) == IF a.n > 0 THEN 1 ELSE IF a.n < 0 THEN -1 ELSE 0
QLt(a, b) == IF QSign(a) # QSign(b) THEN QSign(a) < QSign(b) ELSE QSign(QSub(a, b)) < 0
QLe(a, b) == a = b \/ QLt(a, b)
QMin(a, b) == IF QLt(b, a) THEN b ELSE a
QMax(a, b) == IF QLt(a, b) THEN b ELSE a

\* q \div 10, k times: floor(q / 10^k)
RECURSIVE DivPow10(_, _)
DivPow10(q, k) == IF k = 0 THEN q ELSE DivPow10(q \div 10, k - 1)

\* math.floor(a) as an integer
QFloor(a) == IF a.e >= 0 THEN (a.n * Pow10(a.e)) \div a.d
             ELSE DivPow10(a.n \div a.d, -a.e)

QIsInt(a) == a.d = 1 /\ a.e >= 0
QInt(a) == a.n * Pow10(a.e)

RECURSIVE QPowNat(_, _)
QPowNat(a, k) == IF k = 0 THEN Int2Q(1) ELSE QMul(a, QPowNat(a, k - 1))


(***************************************************************************)
(* Python text operations                                                  *)
(***************************************************************************)
GLYPH == "GLYPH"
NONE == <<"None">>
Digits == {"0", "1", "2", "3", "4", "5", "6", "7", "8", "9"}
LambdaWord == <<"l", "a", "m", "b", "d", "a">>

DigitVal(c) == CASE c = "0" -> 0 [] c = "1" -> 1 [] c = "2" -> 2 [] c = "3" -> 3
                 [] c = "4" -> 4 [] c = "5" -> 5 [] c = "6" -> 6 [] c = "7" -> 7
                 [] c = "8" -> 8 [] c = "9" -> 9
DigitChar(k) == CASE k = 0 -> "0" [] k = 1 -> "1" [] k = 2 -> "2" [] k = 3 -> "3"
                  [] k = 4 -> "4" [] k = 5 -> "5" [] k = 6 -> "6" [] k = 7 -> "7"
                  [] k = 8 -> "8" [] k = 9 -> "9"

\* int(s) of a run of decimal digits (0 for the empty run)
RECURSIVE DigitsVal(_)
DigitsVal(s) == IF s = <<>> THEN 0
                ELSE 10 * DigitsVal(SubSeq(s, 1, Len(s) - 1)) + DigitVal(s[Len(s)])

\* str(k) of a natural number
RECURSIVE NatStr(_)
NatStr(k) == IF k < 10 THEN <<DigitChar(k)>> ELSE NatStr(k \div 10) \o <<DigitChar(k % 10)>>

RECURSIVE Zeros(_)
Zeros(k) == IF k <= 0 THEN <<>> ELSE <<"0">> \o Zeros(k - 1)

\* s.replace(old, new): leftmost, non-overlapping occurrences
RECURSIVE Replace(_, _, _)
Replace(s, old, new) ==
    IF Len(s) < Len(old) THEN s
    ELSE IF SubSeq(s, 1, Len(old)) = old
         THEN new \o Replace(SubSeq(s, Len(old) + 1, Len(s)), old, new)
         ELSE <<s[1]>> \o Replace(Tail(s), old, new)

\* s.strip(): leading and trailing blanks removed
RECURSIVE LStrip(_)
LStrip(s) == IF s # <<>> /\ s[1] = " " THEN LStrip(Tail(s)) ELSE s
RECURSIVE RStrip(_)
RStrip(s) == IF s # <<>> /\ s[Len(s)] = " " THEN RStrip(SubSeq(s, 1, Len(s) - 1)) ELSE s
Strip(s) == RStrip(LStrip(s))

\* s.isdigit(): non-empty and every character a digit
IsDigit(s) == s # <<>> /\ \A p \in 1..Len(s) : s[p] \in Digits

Count(s, c) == Cardinality({p \in 1..Len(s) : s[p] = c})

\* float(s) for a text of digits, "." and "-" (the only texts that reach it):
\* an optional leading "-", then digits with at most one ".", at least one
\* digit; anything else raises ValueError
Raise == [exc |-> TRUE, val |-> Zero]
Value(v) == [exc |-> FALSE, val |-> v]

DotAt(body) == IF Count(body, ".") = 0 THEN Len(body) + 1
               ELSE CHOOSE p \in 1..Len(body) : body[p] = "."
PyFloatBody(neg, body, digs) ==
    IF Count(body, "-") = 0 /\ Count(body, ".") <= 1 /\ IsDigit(digs)
    THEN Value(Q((IF neg THEN -1 ELSE 1) * DigitsVal(digs), 1, -(Len(digs) - (DotAt(body) - 1))))
    ELSE Raise
PyFloatSigned(neg, body) == PyFloatBody(neg, body, Replace(body, <<".">>, <<>>))
PyFloat(s) ==
    IF s # <<>> /\ s[1] = "-" THEN PyFloatSigned(TRUE, Tail(s)) ELSE PyFloatSigned(FALSE, s)

\* str(x) of a float with a finite decimal expansion: repr switches to
\* exponent notation below 1e-04 (and from 1e+16 on)
PyStr(a) ==
    LET sgn  == IF a.n < 0 THEN <<"-">> ELSE <<>>
        digs == NatStr(Abs(a.n))
        L    == Len(digs)
        x10  == L - 1 + a.e
    IN  CASE a.d = 1 /\ a.n = 0 -> <<"0", ".", "0">>
          [] a.d = 1 /\ a.n # 0 /\ x10 < -4 ->
                sgn \o <<digs[1]>> \o (IF L > 1 THEN <<".">> \o Tail(digs) ELSE <<>>)
                    \o <<"e", "-">> \o (IF -x10 < 10 THEN <<"0">> ELSE <<>>) \o NatStr(-x10)
          [] a.d = 1 /\ a.n # 0 /\ x10 >= -4 /\ x10 < 16 /\ a.e >= 0 ->
                sgn \o digs \o Zeros(a.e) \o <<".", "0">>
          [] a.d = 1 /\ a.n # 0 /\ x10 >= -4 /\ x10 < 16 /\ a.e < 0 /\ L > -a.e ->
                sgn \o SubSeq(digs, 1, L + a.e) \o <<".">> \o SubSeq(digs, L + a.e + 1, L)
          [] a.d = 1 /\ a.n # 0 /\ x10 >= -4 /\ x10 < 16 /\ a.e < 0 /\ L <= -a.e ->
                sgn \o <<"0", ".">> \o Zeros(-a.e - L) \o digs

(***************************************************************************)
(* eval(expr, {"__builtins__": None}, {}) on a text of the allowed         *)
(* characters.  With no builtins and no names in scope, a text evaluates  *)
(* to a number only when it is an arithmetic expression over numeric      *)
(* literals; a name, an attribute reference, a call or an empty tuple     *)
(* always ends in an exception (SyntaxError, NameError, AttributeError,   *)
(* TypeError), so they are all reported as exc.                            *)
(***************************************************************************)
RECURSIVE DigitRunEnd(_, _)
DigitRunEnd(s, p) == IF p <= Len(s) /\ s[p] \in Digits THEN DigitRunEnd(s, p + 1) ELSE p

\* a decimal integer or float literal starting at s[p]: the integer digits
\* end before i1, the fraction before i2, the exponent (from j) before i3
ScanValue(s, p, i1, i2, j, i3, hasDot, hasE) ==
    Q(DigitsVal(SubSeq(s, p, i1 - 1) \o (IF hasDot THEN SubSeq(s, i1 + 1, i2 - 1) ELSE <<>>)),
      1,
      (IF ~hasE THEN 0
       ELSE IF s[j - 1] = "-" THEN -DigitsVal(SubSeq(s, j, i3 - 1))
       ELSE DigitsVal(SubSeq(s, j, i3 - 1)))
      - (IF hasDot THEN i2 - i1 - 1 ELSE 0))

\* "012" is a syntax error, "00", "012." and "012e1" are not
ScanOk(s, p, i1, i2, j, i3, hasDot, hasE) ==
    /\ (i1 > p \/ (hasDot /\ i2 > i1 + 1))
    /\ (hasE => i3 > j)
    /\ ~(~hasDot /\ ~hasE /\ i1 - p > 1 /\ s[p] = "0" /\ \E q \in p..(i1 - 1) : s[q] # "0")

ScanEnd(s, p, i1, i2, j, i3, hasDot, hasE) ==
    IF ScanOk(s, p, i1, i2, j, i3, hasDot, hasE)
    THEN [ok |-> TRUE, v |-> ScanValue(s, p, i1, i2, j, i3, hasDot, hasE), p |-> i3]
    ELSE [ok |-> FALSE, v |-> Zero, p |-> i3]

ScanExp(s, p, i1, i2, j, hasDot, hasE) ==
    ScanEnd(s, p, i1, i2, j, IF hasE THEN DigitRunEnd(s, j) ELSE i2, hasDot, hasE)

ScanFrac(s, p, i1, i2, hasDot) ==
    ScanExp(s, p, i1, i2,
            IF i2 + 1 <= Len(s) /\ s[i2 + 1] \in {"+", "-"} THEN i2 + 2 ELSE i2 + 1,
            hasDot, i2 <= Len(s) /\ s[i2] \in {"e", "E"})

ScanInt(s, p, i1) ==
    IF i1 <= Len(s) /\ s[i1] = "." THEN ScanFrac(s, p, i1, DigitRunEnd(s, i1 + 1), TRUE)
    ELSE ScanFrac(s, p, i1, i1, FALSE)

ScanNumber(s, p) == ScanInt(s, p, DigitRunEnd(s, p))

Op(c) == [t |-> c, v |-> Zero]
BadTok == Op("bad")

\* the token stream of s; a character that cannot start a token of the
\* arithmetic grammar (a name, a lone ".") ends the stream with BadTok
RECURSIVE Lex(_, _)
LexNumber(s, r) == IF r.ok THEN <<[t |-> "num", v |-> r.v]>> \o Lex(s, r.p) ELSE <<BadTok>>
Lex(s, p) ==
    IF p > Len(s) THEN <<>>
    ELSE LET c  == s[p]
             c2 == IF p + 1 <= Len(s) THEN s[p + 1] ELSE ""
         IN  IF c \in Digits \/ (c = "." /\ c2 \in Digits)
             THEN LexNumber(s, ScanNumber(s, p))
             ELSE IF c = "*" /\ c2 = "*" THEN <<Op("**")>> \o Lex(s, p + 2)
             ELSE IF c = "/" /\ c2 = "/" THEN <<Op("//")>> \o Lex(s, p + 2)
             ELSE IF c \in {"+", "-", "*", "/", "(", ")"} THEN <<Op(c)>> \o Lex(s, p + 1)
             ELSE <<BadTok>>

\* a ** b
PyPow(a, b) ==
    CASE QIsInt(b) /\ b.n >= 0 -> Value(QPowNat(a, QInt(b)))
      [] QIsInt(b) /\ b.n < 0 /\ a.n = 0 -> Raise              \* ZeroDivisionError
      [] QIsInt(b) /\ b.n < 0 /\ a.n # 0 -> Value(QInv(QPowNat(a, -QInt(b))))
      [] ~QIsInt(b) /\ a.n = 0 /\ b.n < 0 -> Raise             \* ZeroDivisionError
      [] ~QIsInt(b) /\ a.n = 0 /\ b.n > 0 -> Value(Zero)
      [] ~QIsInt(b) /\ a.n < 0 -> Raise                        \* complex: float() TypeError
      [] ~QIsInt(b) /\ a = Int2Q(1) -> Value(Int2Q(1))

\* a op b for a binary operator token
PyBinOp(op, a, b) ==
    CASE op = "+" -> Value(QAdd(a, b))
      [] op = "-" -> Value(QSub(a, b))
      [] op = "*" -> Value(QMul(a, b))
      [] op = "/" -> IF b.n = 0 THEN Raise ELSE Value(QDiv(a, b))
      [] op = "//" -> IF b.n = 0 THEN Raise ELSE Value(Int2Q(QFloor(QDiv(a, b))))
      [] op = "**" -> PyPow(a, b)

\* binding strength of the operators of the expression grammar
\*   arith: term (("+" | "-") term)*      term: factor (("*" | "/" | "//") factor)*
\*   factor: ("+" | "-") factor | power   power: atom ["**" factor]
\*   atom: NUMBER | "(" arith ")"
Prec(op) == CASE op \in {"+", "-"} -> 1
              [] op \in {"*", "/", "//"} -> 2
              [] op \in {"u+", "u-"} -> 3
              [] op = "**" -> 4
              [] op = "(" -> 0

Pop(s) == SubSeq(s, 1, Len(s) - 1)
Top(s) == s[Len(s)]

\* the operator on top of the stack applied to the values on top
ApplyBin(st, r) == [exc |-> r.exc, ops |-> Pop(st.ops), vals |-> Append(Pop(Pop(st.vals)), r.val)]
ApplyTop(st) ==
    IF Top(st.ops) \in {"u+", "u-"}
    THEN [st EXCEPT !.ops = Pop(st.ops),
                    !.vals = Append(Pop(st.vals),
                                    IF Top(st.ops) = "u-" THEN QNeg(Top(st.vals)) ELSE Top(st.vals))]
    ELSE ApplyBin(st, PyBinOp(Top(st.ops), Top(Pop(st.vals)), Top(st.vals)))

\* apply the stacked operators that bind at least as tightly as level q
\* ("**" groups to the right, so an equal "**" stays)
RECURSIVE Unwind(_, _)
Unwind(st, q) ==
    IF st.exc \/ st.ops = <<>> \/ Top(st.ops) = "(" THEN st
    ELSE IF Prec(Top(st.ops)) > q \/ (Prec(Top(st.ops)) = q /\ q # 4)
         THEN Unwind(ApplyTop(st), q)
         ELSE st

\* the parser and evaluator as an operator-precedence machine over the
\* token stream: operand says whether an operand or an operator is due.
\* An atom followed by "(" is the call of a number, "()" an empty tuple.
RECURSIVE Shunt(_, _, _, _)
ShuntEnd(u, operand) ==
    IF operand \/ u.exc \/ u.ops # <<>> THEN Raise ELSE Value(u.vals[1])
ShuntClose(toks, p, u) ==
    IF u.ops = <<>> THEN Raise ELSE Shunt(toks, p + 1, [u EXCEPT !.ops = Pop(@)], FALSE)
Shunt(toks, p, st, operand) ==
    IF st.exc THEN Raise
    ELSE IF p > Len(toks) THEN ShuntEnd(Unwind(st, 0), operand)
    ELSE IF operand
         THEN IF toks[p].t = "num"
              THEN Shunt(toks, p + 1, [st EXCEPT !.vals = Append(@, toks[p].v)], FALSE)
              ELSE IF toks[p].t \in {"+", "-"}
              THEN Shunt(toks, p + 1, [st EXCEPT !.ops = Append(@, "u" \o toks[p].t)], TRUE)
              ELSE IF toks[p].t = "("
              THEN Shunt(toks, p + 1, [st EXCEPT !.ops = Append(@, "(")], TRUE)
              ELSE Raise
         ELSE IF toks[p].t \in {"+", "-", "*", "/", "//", "**"}
              THEN Shunt(toks, p + 1,
                         [Unwind(st, Prec(toks[p].t)) EXCEPT !.ops = Append(@, toks[p].t)], TRUE)
              ELSE IF toks[p].t = ")" THEN ShuntClose(toks, p, Unwind(st, 0))
              ELSE Raise

\* float(eval(expr)): the value, or exc when compiling or evaluating raises
PyEval(expr) ==
    Shunt(Lex(expr, 1), 1, [exc |-> FALSE, ops |-> <<>>, vals |-> <<>>], TRUE)

(***************************************************************************)
(* parse_k_expression (src/main.py 61-97)                                  *)
(***************************************************************************)
DefaultK == Q(1, 100, 0)
Epsilon == Q(1, 1, -9)
allowed_chars == Digits \cup {"+", "-", "*", "/", ".", "(", ")", "e", "E"}

\* str(k_str).strip().replace(' ', '') and then .replace('^', '**')
Clean(k_str) == Replace(Replace(Strip(k_str), <<" ">>, <<>>), <<"^">>, <<"*", "*">>)

\* the test guarding the literal shortcut
LooksNumeric(expr) == IsDigit(Replace(Replace(expr, <<".">>, <<>>), <<"-">>, <<>>))

\* the substitution with the replacement of the glyph left out
SubstituteText_wordOnly(expr, text) == Replace(expr, LambdaWord, text)

\* lambda and the glyph replaced by str(lam_safe)
SubstituteText(expr, text) == Replace(Replace(expr, LambdaWord, text), <<GLYPH>>, text)
\* line 80: the ratio, or the small positive number standing in for 0
lam_safe(lambda_val) == IF lambda_val # Zero THEN lambda_val ELSE Epsilon
Substitute(expr, lambda_val) == SubstituteText(expr, PyStr(lam_safe(lambda_val)))

Outcome(r, path, fallback) == [exc |-> r.exc, val |-> r.val, path |-> path, fallback |-> fallback]

\* lines 86-94: the text after substitution is checked, then evaluated
parse_k_eval(sub) ==
    IF ~(\A p \in 1..Len(sub) : sub[p] \in allowed_chars)
    THEN Outcome(Value(DefaultK), "chars", TRUE)
    ELSE Outcome(PyEval(sub), "eval", FALSE)

\* lines 75-94, on the cleaned text
parse_k_clean(expr, lambda_val) ==
    IF LooksNumeric(expr) THEN Outcome(PyFloat(expr), "literal", FALSE)
    ELSE parse_k_eval(Substitute(expr, lambda_val))

\* the body of the try block: exc is an exception leaving the block
parse_k_body(k_str, lambda_val) ==
    IF k_str = NONE THEN Outcome(Value(DefaultK), "none", TRUE)
    ELSE parse_k_clean(Clean(k_str), lambda_val)

\* the exception let through to the caller
Catch_propagate(r) == r

\* except Exception: return 0.01
Catch(r) == IF r.exc THEN Outcome(Value(DefaultK), r.path, TRUE) ELSE r

\* try: ... except Exception: return 0.01
parse_k_expression(k_str, lambda_val) == Catch(parse_k_body(k_str, lambda_val))

(***************************************************************************)
(* calculate_inverter_power (src/main.py 150-218)                          *)
(***************************************************************************)
\* round-to-nearest at one decimal in place of the floor
truncate_decimal_round(value) ==
    Q(QFloor(QAdd(QMul(value, Int2Q(10)), Tenths(5))), 10, 0)

\* math.floor(value * 10 ** decimals) / 10 ** decimals with decimals = 1
truncate_decimal(value) == Q(QFloor(QMul(value, Int2Q(10))), 10, 0)

Sentinel == Q(9999, 10, 0)

\* the start value taken without reading the first load
InitialInv_unchecked(loads, initial) ==
    Value(IF Len(loads) = 0 THEN QMax(Zero, initial) ELSE QMin(QMax(Zero, initial), loads[1]))

\* line 163: the start value, clamped by the first load; load_series[0] of
\* an empty series raises IndexError
InitialInv(loads, initial) ==
    IF Len(loads) = 0 THEN Raise
    ELSE Value(QMin(QMax(Zero, initial), loads[1]))

\* the entry clamp with the lower bound left out
EntryClamp_noFloor(inv, load_i) == truncate_decimal(QMin(inv, load_i))

\* lines 169-170: the clamp at the start of a step
EntryClamp(inv, load_i) == truncate_decimal(QMin(QMax(Zero, inv), load_i))

\* the share of the load the inverter covers taken for the ratio
Lam_complement(load_i, grid_i) ==
    truncate_decimal(IF QLe(load_i, Zero) THEN Zero
                     ELSE QSub(Int2Q(1), QDiv(grid_i, load_i)))

\* line 174
Lam(load_i, grid_i) ==
    truncate_decimal(IF QLe(load_i, Zero) THEN Zero ELSE QDiv(grid_i, load_i))

\* lines 180-181
Increment(k_val, lam_i, load_i) ==
    truncate_decimal(QMul(QMul(QMul(k_val, QPowNat(lam_i, 2)), load_i), Int2Q(1)))

\* the sentinel returned whenever the aggressive adjustment is 0
AdjustmentRatio_alwaysSentinel(inc_i, aggressive_i) ==
    IF aggressive_i = Zero THEN Sentinel
    ELSE truncate_decimal(QDiv(inc_i, aggressive_i))

\* lines 187-190
AdjustmentRatio(inc_i, aggressive_i) ==
    IF aggressive_i = Zero THEN (IF QLt(Zero, inc_i) THEN Sentinel ELSE Zero)
    ELSE truncate_decimal(QDiv(inc_i, aggressive_i))

\* a load of 0 or below reported as fully covered
InvPercent_fullOnZero(load_i, inv) ==
    truncate_decimal(IF QLe(load_i, Zero) THEN Int2Q(100)
                     ELSE QMul(QDiv(inv, load_i), Int2Q(100)))

\* line 193
InvPercent(load_i, inv) ==
    truncate_decimal(IF QLe(load_i, Zero) THEN Zero
                     ELSE QMul(QDiv(inv, load_i), Int2Q(100)))

\* the comparison with the next load reversed
LookaheadClamp_reversed(inv, loads, j) ==
    IF j + 1 <= Len(loads) /\ QLt(inv, loads[j + 1])
    THEN truncate_decimal(loads[j + 1])
    ELSE inv

\* lines 213-216: the carried value cut down to the next load
LookaheadClamp(inv, loads, j) ==
    IF j + 1 <= Len(loads) /\ QLt(loads[j + 1], inv)
    THEN truncate_decimal(loads[j + 1])
    ELSE inv

\* lines 166-216: one pass of the loop body for row j (1-based) entered with
\* inv; rec is the appended record, frame the locals it leaves, next the
\* carried inv_curr.  The passthrough columns of the row are stood for by
\* the row number.  ahead = FALSE is the loop without lines 213-216.
IterEmit(loads, j, load_i, inv_c, grid_i, lam_i, k, inc_i, aggressive_i, ahead) ==
    [exc   |-> k.exc,
     rec   |-> [row                     |-> j,
                load                    |-> truncate_decimal(load_i),
                inverter_output         |-> inv_c,
                inverter_output_percent |-> InvPercent(load_i, inv_c),
                adjustment              |-> inc_i,
                aggressive_adjustment   |-> aggressive_i,
                adjustment_ratio        |-> AdjustmentRatio(inc_i, aggressive_i)],
     frame |-> [load_i |-> load_i, grid_i |-> grid_i, lam_i |-> lam_i,
                k_val |-> k.val, k_fallback |-> k.fallback],
     next  |-> IF ahead THEN LookaheadClamp(QAdd(inv_c, inc_i), loads, j)
               ELSE QAdd(inv_c, inc_i)]

IterGain(loads, j, load_i, inv_c, grid_i, lam_i, k, ahead) ==
    IterEmit(loads, j, load_i, inv_c, grid_i, lam_i, k,
             Increment(k.val, lam_i, load_i),
             truncate_decimal(QSub(load_i, inv_c)), ahead)

IterGrid(loads, j, load_i, inv_c, grid_i, lam_i, k_expr, ahead) ==
    IterGain(loads, j, load_i, inv_c, grid_i, lam_i, parse_k_expression(k_expr, lam_i), ahead)

IterClamp(loads, j, load_i, inv_c, grid_i, k_expr, ahead) ==
    IterGrid(loads, j, load_i, inv_c, grid_i, Lam(load_i, grid_i), k_expr, ahead)

IterEntry(loads, j, load_i, inv_c, k_expr, ahead) ==
    IterClamp(loads, j, load_i, inv_c, truncate_decimal(QSub(load_i, inv_c)), k_expr, ahead)

\* the cut to the next load made before the record is emitted
Iterate_peek(loads, j, inv, k_expr, ahead) ==
    IterEntry(loads, j, loads[j], EntryClamp(LookaheadClamp(inv, loads, j), loads[j]), k_expr, ahead)

Iterate(loads, j, inv, k_expr, ahead) ==
    IterEntry(loads, j, loads[j], EntryClamp(inv, loads[j]), k_expr, ahead)

(***************************************************************************)
(* Inputs                                                                  *)
(***************************************************************************)
MaxSteps == 3        \* longest load series of a single run
MaxPairSteps == 2    \* longest load series when two runs are compared
MaxLen == 3          \* longest enumerated expression text

E_const  == <<"0", ".", "0", "1">>
E_002    == <<"0", ".", "0", "2">>
E_padded == <<" ", "0", ".", "0", "2", " ">>
E_two    == <<"2">>
E_neg    == <<"-", "5">>
E_plus   == <<"+", "5">>
E_diff   == <<"5", "-", "3">>
E_dots   == <<"1", ".", "2", ".", "3">>
E_exp    == <<"1", "e", "-", "2">>
E_word   == <<"0", ".", "0", "1", "*">> \o LambdaWord \o <<"^", "2">>
E_glyph  == <<"0", ".", "0", "1", "*", GLYPH, "^", "2">>
E_twice  == <<"0", ".", "1", "*", GLYPH, "*">> \o LambdaWord
E_ratio  == <<"0", ".", "0", "1", "*", "r", "a", "t", "i", "o", "^", "2">>
E_pole   == <<"1", "/", "(">> \o LambdaWord \o <<"-", "0", ".", "5", ")">>
E_junk   == <<"n", "o", "t", "_", "a", "_", "f", "o", "r", "m", "u", "l", "a", "!", "!">>

\* gain expressions given to a run
GainExprs == {E_const, E_two, E_neg, E_diff, E_glyph, E_ratio, E_pole, NONE}

\* expressions and ratios given to parse_k_expression directly
CallExprs == GainExprs \cup {E_002, E_padded, E_plus, E_dots, E_exp, E_word, E_twice, E_junk}
Ratios == {Tenths(k) : k \in 0..10}
Alphabet == {"0", "3", "5", "-", "+", ".", "/", "(", ")", "e", " ", "x"}
Texts == UNION {[1..k -> Alphabet] : k \in 0..MaxLen}

LoadValues == {Q(-25, 10, 0), Zero, Q(125, 100, 0), Int2Q(80), Int2Q(90), Int2Q(100)}
InitialPowers == {Zero, Int2Q(10), Int2Q(45), Q(9555, 100, 0)}
LoadSeries == UNION {[1..k -> LoadValues] : k \in 0..MaxSteps}

PairLoadValues == {Q(-25, 10, 0), Zero, Int2Q(90), Int2Q(100)}
PairSeries == UNION {[1..k -> PairLoadValues] : k \in 0..MaxPairSteps}
PairPowers == {Int2Q(10), Q(9555, 100, 0)}
PairExprs == {E_const, E_two, E_pole}

(***************************************************************************)
(* State                                                                   *)
(***************************************************************************)
VARIABLES
    load_series,        \* df.iloc[:, 4] as floats
    initial_inv_power,
    k_expression,
    pc,                 \* "call", "loop", "done", "raised"
    error,              \* the exception that ended the call, "" if none
    i,                  \* row being processed, 1-based
    inv_curr,
    results,
    frame,              \* locals left by the last pass of the loop body
    alt,                \* a second call of calculate_inverter_power
    gain                \* a direct call of parse_k_expression; ret.val is what
                        \* it returns, ret.path and ret.fallback how it got there

vars == <<load_series, initial_inv_power, k_expression, pc, error, i, inv_curr, results, frame, alt, gain>>
runVars == <<load_series, initial_inv_power, k_expression, pc, error, i, inv_curr, results, frame>>

NoFrame == [load_i |-> Zero, grid_i |-> Zero, lam_i |-> Zero, k_val |-> Zero, k_fallback |-> FALSE]
NoAlt == [pc |-> "off", load_series |-> <<>>, ahead |-> TRUE, i |-> 0, inv_curr |-> Zero, results |-> <<>>]
NoOutcome == [exc |-> FALSE, val |-> Zero, path |-> "", fallback |-> FALSE]
NoGain == [pc |-> "off", k_str |-> <<>>, lambda_val |-> Zero, ret |-> NoOutcome]

(***************************************************************************)
(* Single run                                                              *)
(***************************************************************************)
Init ==
    /\ load_series \in LoadSeries
    /\ initial_inv_power \in InitialPowers
    /\ k_expression \in GainExprs
    /\ pc = "call"
    /\ error = ""
    /\ i = 0
    /\ inv_curr = Zero
    /\ results = <<>>
    /\ frame = NoFrame
    /\ alt = NoAlt
    /\ gain = NoGain

StartWith(r) ==
    /\ pc' = IF r.exc THEN "raised" ELSE "loop"
    /\ error' = IF r.exc THEN "IndexError" ELSE error
    /\ inv_curr' = r.val

\* lines 157-163
Start ==
    /\ pc = "call"
    /\ StartWith(InitialInv(load_series, initial_inv_power))
    /\ i' = 1
    /\ results' = <<>>
    /\ UNCHANGED <<load_series, initial_inv_power, k_expression, frame, alt, gain>>

\* an exception leaving the loop body ends the call
StepWith(r) ==
    IF r.exc
    THEN /\ pc' = "raised"
         /\ error' = "Exception"
         /\ UNCHANGED <<i, inv_curr, results, frame>>
    ELSE /\ error' = error
         /\ results' = Append(results, r.rec)
         /\ frame' = r.frame
         /\ inv_curr' = r.next
         /\ i' = i + 1
         /\ pc' = pc

\* lines 165-216: one pass of the loop
Step ==
    /\ pc = "loop"
    /\ i <= Len(load_series)
    /\ StepWith(Iterate(load_series, i, inv_curr, k_expression, TRUE))
    /\ UNCHANGED <<load_series, initial_inv_power, k_expression, alt, gain>>

\* line 218
Return ==
    /\ pc = "loop"
    /\ i > Len(load_series)
    /\ pc' = "done"
    /\ UNCHANGED <<load_series, initial_inv_power, k_expression, error, i, inv_curr, results, frame, alt, gain>>

Next == Start \/ Step \/ Return

Spec == Init /\ [][Next]_vars

(***************************************************************************)
(* Two runs: the call above, then a second call with the same start value *)
(* and gain expression, with or without lines 213-216                      *)
(***************************************************************************)
InitPair ==
    /\ load_series \in PairSeries
    /\ initial_inv_power \in PairPowers
    /\ k_expression \in PairExprs
    /\ pc = "call"
    /\ error = ""
    /\ i = 0
    /\ inv_curr = Zero
    /\ results = <<>>
    /\ frame = NoFrame
    /\ \E ahead \in BOOLEAN :
       \E other \in PairSeries :
          /\ IF ahead
             THEN load_series # <<>> /\ other # <<>> /\ other[1] = load_series[1]
             ELSE other = load_series
          /\ alt = [pc |-> "call", load_series |-> other, ahead |-> ahead,
                    i |-> 0, inv_curr |-> Zero, results |-> <<>>]
    /\ gain = NoGain

AltStartWith(r) ==
    alt' = [alt EXCEPT !.pc = IF r.exc THEN "raised" ELSE "loop",
                       !.inv_curr = r.val, !.i = 1, !.results = <<>>]

AltStart ==
    /\ pc \in {"done", "raised"}
    /\ alt.pc = "call"
    /\ AltStartWith(InitialInv(alt.load_series, initial_inv_power))
    /\ UNCHANGED <<runVars, gain>>

AltStepWith(r) ==
    alt' = IF r.exc THEN [alt EXCEPT !.pc = "raised"]
           ELSE [alt EXCEPT !.results = Append(alt.results, r.rec),
                            !.inv_curr = r.next, !.i = alt.i + 1]

AltStep ==
    /\ alt.pc = "loop"
    /\ alt.i <= Len(alt.load_series)
    /\ AltStepWith(Iterate(alt.load_series, alt.i, alt.inv_curr, k_expression, alt.ahead))
    /\ UNCHANGED <<runVars, gain>>

AltReturn ==
    /\ alt.pc = "loop"
    /\ alt.i > Len(alt.load_series)
    /\ alt' = [alt EXCEPT !.pc = "done"]
    /\ UNCHANGED <<runVars, gain>>

NextPair == Start \/ Step \/ Return \/ AltStart \/ AltStep \/ AltReturn

SpecPair == InitPair /\ [][NextPair]_vars

(***************************************************************************)
(* A direct call of parse_k_expression                                     *)
(***************************************************************************)
InitGain ==
    /\ load_series = <<>>
    /\ initial_inv_power = Zero
    /\ k_expression = <<>>
    /\ pc = "off"
    /\ error = ""
    /\ i = 0
    /\ inv_curr = Zero
    /\ results = <<>>
    /\ frame = NoFrame
    /\ alt = NoAlt
    /\ \E k_str \in CallExprs \cup Texts :
       \E lambda_val \in Ratios :
          /\ k_str \in Texts \ CallExprs => lambda_val = Tenths(5)
          /\ gain = [pc |-> "call", k_str |-> k_str, lambda_val |-> lambda_val, ret |-> NoOutcome]

EvaluateWith(r) ==
    gain' = [gain EXCEPT !.pc = IF r.exc THEN "raised" ELSE "return", !.ret = r]

Evaluate ==
    /\ gain.pc = "call"
    /\ EvaluateWith(parse_k_expression(gain.k_str, gain.lambda_val))
    /\ UNCHANGED <<runVars, alt>>

NextGain == Evaluate

SpecGain == InitGain /\ [][NextGain]_vars

(***************************************************************************)
(* Properties                                                              *)
(***************************************************************************)
Rows == 1..Len(results)

C2_EmptyInputError ==
    (load_series = <<>> /\ pc # "call")
        => (pc = "raised" /\ error = "EmptyInputError" /\ results = <<>>)

\* C2 amended: an empty load series ends the call with an exception, the
\* IndexError of reading the first load, and no record, whatever the start
\* value and the gain expression.
C2_EmptyInputRaises ==
    (load_series = <<>> /\ pc # "call")
        => (pc = "raised" /\ error = "IndexError" /\ results = <<>>)

C2_Witness == load_series = <<>> /\ pc = "raised" /\ k_expression = E_glyph

\* C3 as stated: parse_k_expression("0.01*ratio^2", 0.5) returns 0.0025, the
\* word ratio being replaced by the numeric ratio.
C3_RatioToken ==
    (gain.pc = "return" /\ gain.k_str = E_ratio /\ gain.lambda_val = Tenths(5))
        => gain.ret.val = Q(25, 10000, 0)

\* C3 amended: the free variable is spelled lambda or with the glyph; every
\* occurrence of either is replaced by the ratio (by 1e-9 when the ratio is
\* 0) and the arithmetic value is returned: 0.01*lambda^2 and its glyph
\* spelling return 0.01 * ratio^2 (0.0025 at 0.5), an expression using both
\* spellings returns 0.1 * ratio * ratio.  The word ratio is no token:
\* 0.01*ratio^2 returns the default 0.01.
C3_LambdaToken ==
    gain.pc # "call" =>
        /\ gain.pc = "return"
        /\ gain.k_str \in {E_word, E_glyph} =>
               /\ gain.ret.val = QMul(Q(1, 100, 0), QPowNat(lam_safe(gain.lambda_val), 2))
               /\ ~gain.ret.fallback
        /\ gain.k_str = E_twice =>
               /\ gain.ret.val = QMul(Tenths(1), QPowNat(lam_safe(gain.lambda_val), 2))
               /\ ~gain.ret.fallback
        /\ gain.k_str = E_ratio => gain.ret.val = DefaultK /\ gain.ret.fallback

\* the glyph spelling evaluated at ratio 0.5 to 0.0025
C3_Witness ==
    /\ gain.pc = "return"
    /\ gain.k_str = E_glyph
    /\ gain.lambda_val = Tenths(5)
    /\ gain.ret.val = Q(25, 10000, 0)
    /\ gain.ret.path = "eval"

\* C4 as stated: a cleaned expression that is not a single numeric literal
\* but is built only from allowed arithmetic characters is evaluated as
\* arithmetic: 5-3 returns 2 and not the default 0.01.
C4_DifferenceEvaluated ==
    (gain.pc = "return" /\ gain.k_str = E_diff)
        => (gain.ret.val = Int2Q(2) /\ gain.ret.path = "eval" /\ ~gain.ret.fallback)

Scenario6 ==
    /\ load_series = <<Int2Q(100), Int2Q(90), Int2Q(80)>>
    /\ initial_inv_power = Int2Q(10)
    /\ k_expression = E_const

Record(row, load, inv, percent, adjustment, aggressive, ratio) ==
    [row |-> row, load |-> load, inverter_output |-> inv, inverter_output_percent |-> percent,
     adjustment |-> adjustment, aggressive_adjustment |-> aggressive, adjustment_ratio |-> ratio]

\* C6: loads 100, 90, 80 from 10 with gain "0.01".  Step 0 emits output 10.0,
\* aggressive adjustment (grid) 90.0, adjustment 0.8, adjustment ratio 0.0
\* with ratio 0.9, and carries 10.8 = 10.0 + 0.8 uncut; step 1 emits output
\* 10.8 and grid 79.2, with ratio 0.8 = floor(0.88 * 10) / 10 where rounding
\* to nearest gives 0.9; step 2 emits output 11.3 and grid 68.7.
C6_Trace ==
    Scenario6 =>
        /\ Len(results) >= 1 =>
              results[1] = Record(1, Int2Q(100), Int2Q(10), Int2Q(10), Tenths(8), Int2Q(90), Zero)
        /\ Len(results) = 1 =>
              /\ frame.grid_i = Int2Q(90)
              /\ frame.lam_i = Tenths(9)
              /\ frame.k_val = Q(1, 100, 0)
              /\ inv_curr = Tenths(108)
        /\ Len(results) >= 2 =>
              results[2] = Record(2, Int2Q(90), Tenths(108), Int2Q(12), Tenths(5), Tenths(792), Zero)
        /\ Len(results) = 2 =>
              /\ frame.grid_i = Tenths(792)
              /\ frame.lam_i = Tenths(8)
              /\ inv_curr = Tenths(113)
        /\ Len(results) >= 3 =>
              results[3] = Record(3, Int2Q(80), Tenths(113), Tenths(141), Tenths(5), Tenths(687), Zero)
        /\ pc = "done" => Len(results) = 3

C6_Witness == Scenario6 /\ pc = "done" /\ Len(results) = 3 /\ frame.lam_i = Tenths(8)

\* C7: in every record, inverter_output_percent lies in [0, 100] when the
\* record's load is > 0 and is exactly 0 when the load is 0; a step on a
\* load of 0 has ratio 0 and raises nothing.
C7_PercentBound ==
    /\ \A j \in Rows :
          /\ QLt(Zero, load_series[j]) =>
                 /\ QLe(Zero, results[j].inverter_output_percent)
                 /\ QLe(results[j].inverter_output_percent, Int2Q(100))
          /\ load_series[j] = Zero => results[j].inverter_output_percent = Zero
    /\ (results # <<>> /\ frame.load_i = Zero) => frame.lam_i = Zero
    /\ (pc = "done" /\ \E j \in 1..Len(load_series) : load_series[j] = Zero)
          => (error = "" /\ Len(results) = Len(load_series))

\* a record at 100 percent, then a record of load 0 entered with a positive
\* carried value
C7_Witness ==
    /\ pc = "done"
    /\ \E j \in Rows : /\ j >= 2
                       /\ load_series[j] = Zero
                       /\ QLt(Zero, QAdd(results[j - 1].inverter_output, results[j - 1].adjustment))
                       /\ results[j].inverter_output_percent = Zero
    /\ \E m \in Rows : results[m].inverter_output_percent = Int2Q(100)

\* C8: in every record, adjustment_ratio is 999.9 when aggressive_adjustment
\* is 0 and adjustment > 0, is 0.0 when aggressive_adjustment is 0 and
\* adjustment <= 0, and is floor(adjustment / aggressive_adjustment * 10) / 10
\* otherwise.
C8_RatioCases ==
    \A j \in Rows :
        LET A == results[j].adjustment
            G == results[j].aggressive_adjustment
        IN  results[j].adjustment_ratio =
                IF G = Zero THEN (IF QLt(Zero, A) THEN Q(9999, 10, 0) ELSE Zero)
                ELSE Tenths(QFloor(QMul(QDiv(A, G), Int2Q(10))))

\* a record with aggressive adjustment 0 and ratio 0.0, and a record whose
\* quotient is cut by the floor to a non-zero ratio
C8_Witness ==
    /\ \E j \in Rows : /\ results[j].aggressive_adjustment = Zero
                       /\ results[j].adjustment = Zero
                       /\ results[j].adjustment_ratio = Zero
    /\ \E m \in Rows : /\ results[m].aggressive_adjustment # Zero
                       /\ results[m].adjustment_ratio # Zero
                       /\ QMul(results[m].adjustment_ratio, results[m].aggressive_adjustment)
                              # results[m].adjustment

\* rows both runs have emitted
PairRows == 1..(IF Len(results) <= Len(alt.results) THEN Len(results) ELSE Len(alt.results))

\* C9: two runs with the same start value and gain expression whose load
\* series agree on rows 1..j emit identical records 1..j, whatever the later
\* rows are, row j + 1 read by the lookahead included; equal inputs give
\* equal output sequences.
C9_Causal ==
    alt.ahead =>
        /\ \A j \in PairRows :
              (\A m \in 1..j : load_series[m] = alt.load_series[m]) => results[j] = alt.results[j]
        /\ (alt.load_series = load_series /\ pc = "done" /\ alt.pc = "done")
              => results = alt.results

\* two finished runs sharing row 1 and differing in row 2, the lookahead
\* cutting the carried value in the first run only
C9_Witness ==
    /\ alt.ahead
    /\ pc = "done"
    /\ alt.pc = "done"
    /\ Len(results) = 2
    /\ Len(alt.results) = 2
    /\ load_series[2] # alt.load_series[2]
    /\ QLt(load_series[2], QAdd(results[1].inverter_output, results[1].adjustment))
    /\ QLe(QAdd(results[1].inverter_output, results[1].adjustment), alt.load_series[2])
    /\ results[1] = alt.results[1]
    /\ results[2].inverter_output # alt.results[2].inverter_output

\* C10: the run with lines 213-216 and the run without them, on the same
\* load series, start value and gain expression, emit the same records row
\* by row, and the same sequence once both have returned.
C10_LookaheadRedundant ==
    ~alt.ahead =>
        /\ \A j \in PairRows : results[j] = alt.results[j]
        /\ (pc = "done" /\ alt.pc = "done") => results = alt.results
        /\ alt.pc = "raised" <=> (pc = "raised" /\ alt.pc # "call")

\* the run without the lookahead carries a value above the next load into
\* row 2, where the run with the lookahead had cut it, and both return
\* the same two records
C10_Witness ==
    /\ ~alt.ahead
    /\ pc = "done"
    /\ alt.pc = "done"
    /\ Len(alt.results) >= 2
    /\ QLt(alt.load_series[2], QAdd(alt.results[1].inverter_output, alt.results[1].adjustment))
    /\ QLt(Zero, alt.load_series[2])
    /\ results = alt.results

\* C11: in every record, aggressive_adjustment = 0 implies adjustment = 0
\* (the aggressive adjustment is the grid draw, so the step's ratio is 0 and
\* k * ratio^2 * load is 0 for every finite gain k); hence adjustment_ratio
\* is never the sentinel 999.9.
C11_SentinelNeverEmitted ==
    /\ \A j \in Rows :
          /\ results[j].aggressive_adjustment = Zero =>
                 /\ results[j].adjustment = Zero
                 /\ results[j].adjustment_ratio = Zero
          /\ results[j].adjustment_ratio # Q(9999, 10, 0)
    /\ results # <<>> =>
          /\ frame.grid_i = results[Len(results)].aggressive_adjustment
          /\ frame.grid_i = Zero => frame.lam_i = Zero

\* gain 2 on a positive load not fully covered (load - inverter_output lies
\* in (0, 0.1)) whose aggressive adjustment is cut to 0, and gain -5 on a
\* fully covered load: both with adjustment 0
C11_Witness ==
    \E j \in Rows :
        /\ k_expression \in {E_two, E_neg}
        /\ frame.k_val # Zero
        /\ QLt(results[j].inverter_output, load_series[j])
        /\ results[j].aggressive_adjustment = Zero
        /\ results[j].adjustment = Zero
        /\ \E m \in Rows : /\ results[m].aggressive_adjustment = Zero
                           /\ results[m].inverter_output = load_series[m]
                           /\ QLt(Zero, load_series[m])
====
